---------------------------- MODULE Spec2Model ----------------------------
(***************************************************************************)
(* Stripe -> Supabase webhook relay (jponzz/bloopiT).                      *)
(*                                                                         *)
(* The repository holds three handlers for POST /api/webhook:              *)
(*   "server"   src/server.js                        (Express)             *)
(*   "route"    src/src/app/api/webhook/route.ts     (Next.js, logs only)  *)
(*   "part_001" src/unnamed/part_001                 (Next.js, inserts)    *)
(* and two for POST /api/create-checkout (src/server.js and part_000).     *)
(* They share one external `subscriptions` table.  Each request runs in a  *)
(* slot; a handler is suspended at every await on the payments provider    *)
(* or on the storage backend, and slots interleave at those awaits.        *)
(*                                                                         *)
(* Spec     the handlers of a configured, listening deployment.            *)
(* LifeSpec the same handlers over the life of the Express process of      *)
(*          src/server.js: start-up check of process.env, the Supabase     *)
(*          check, SIGTERM/SIGINT, fatal errors, exit.                     *)
(***************************************************************************)
EXTENDS Integers, Sequences, FiniteSets, TLC

\* ------------------------------------------------------------ bounds
\* Largest number of rows the subscriptions table is explored to.
MaxRows == 2

\* Requests that can be in flight at once: two, so that two deliveries
\* interleave at their awaits.
Slots == {"r1", "r2"}

\* ------------------------------------------------------ value domains
Null      == "null"        \* SQL NULL / JSON null
Undefined == "undefined"   \* a field absent from a JS object
NaN       == 0 - 1         \* Number(undefined): not a valid epoch value

SubIds == {"sub_1", "sub_2"}

WebhookHandlers  == {"server", "route", "part_001"}
CheckoutHandlers == {"server", "part_000"}

\* The stripe-signature header: absent, present but failing verification,
\* or present and verifying against STRIPE_WEBHOOK_SECRET.
Sigs == {"missing", "invalid", "valid"}

\* event.data.object, with every field the handlers read.
Obj(id, sub, ref, cus, st, cpe, cape) ==
    [id |-> id, subscription |-> sub, client_reference_id |-> ref,
     customer |-> cus, status |-> st, current_period_end |-> cpe,
     cancel_at_period_end |-> cape]

Ev(type, obj) == [type |-> type, object |-> obj]

CheckoutEvents ==
    { Ev("checkout.session.completed",
         Obj("cs_1", "sub_1", "user_1", "cus_1", Undefined, NaN, FALSE)),
      Ev("checkout.session.completed",
         Obj("cs_2", "sub_2", "user_2", "cus_2", Undefined, NaN, FALSE)),
      \* a session without a subscription (one-off payment / malformed)
      Ev("checkout.session.completed",
         Obj("cs_3", Undefined, "user_1", "cus_1", Undefined, NaN, FALSE)) }

UpdatedEvents ==
    { Ev("customer.subscription.updated",
         Obj("sub_1", Undefined, Undefined, "cus_1", "past_due", 3, FALSE)),
      \* current_period_end absent from the payload
      Ev("customer.subscription.updated",
         Obj("sub_1", Undefined, Undefined, "cus_1", "active", NaN, FALSE)) }

DeletedEvents ==
    { Ev("customer.subscription.deleted",
         Obj("sub_1", Undefined, Undefined, "cus_1", "canceled", 3, FALSE)) }

OtherEvents ==
    { Ev("customer.subscription.created",
         Obj("sub_1", Undefined, Undefined, "cus_1", "active", 1, FALSE)),
      Ev("invoice.paid",
         Obj("sub_1", "sub_1", Undefined, "cus_1", "paid", 1, FALSE)) }

Events == CheckoutEvents \cup UpdatedEvents \cup DeletedEvents \cup OtherEvents

\* Bodies sent without a verifying signature: one of each persisting kind.
UnverifiedBodies ==
    { e \in Events :
        /\ e.type \in {"checkout.session.completed", "customer.subscription.deleted"}
        /\ e.object.id \in {"cs_1", "sub_1"} }

\* What stripe.subscriptions.retrieve(id) can resolve to.
Sub(id, st, items, cpe, cape) ==
    [id |-> id, status |-> st, items |-> items,
     current_period_end |-> cpe, cancel_at_period_end |-> cape]

ProviderSubs(id) ==
    IF id = "sub_1"
    THEN { Sub(id, "trialing", <<"price_B", "price_A">>, 2, TRUE),
           \* a subscription with no line item
           Sub(id, "active", <<>>, 2, TRUE) }
    ELSE { Sub(id, "active", <<"price_A">>, 1, FALSE) }

NoSub == Sub(Null, Null, <<>>, NaN, FALSE)
NoReq == [path |-> Null, handler |-> Null, sig |-> Null,
          event |-> Ev(Null, Obj(Null, Null, Null, Null, Null, NaN, FALSE)),
          priceId |-> Null, userId |-> Null]

\* ------------------------------------------------------------- state
VARIABLES
    table,      \* the rows of the external `subscriptions` table, oldest first
    pc,         \* per slot: where the handler is suspended
    req,        \* per slot: the request being served
    fetched,    \* per slot: what stripe.subscriptions.retrieve resolved to
    resp,       \* per slot: HTTP status sent (0 while none is sent)
    calls,      \* per slot: calls made to the provider and to the storage
    dbError,    \* per slot: the error the storage call returned
    affected,   \* per slot: rows the storage call inserted or changed
    env,        \* the names set in process.env
    proc,       \* the Express process: init, listening, closing_N, exit_N
    probe       \* checkSupabaseConnection(): idle, pending, ok, failed

vars == <<table, pc, req, fetched, resp, calls, dbError, affected,
          env, proc, probe>>

\* ------------------------------------------------ configuration, process
requiredEnvVars ==
    {"STRIPE_SECRET_KEY", "NEXT_PUBLIC_SUPABASE_URL",
     "SUPABASE_SERVICE_ROLE_KEY", "STRIPE_WEBHOOK_SECRET",
     "NEXT_PUBLIC_APP_URL"}

\* The environments considered: complete, or with one name unset.
Environments ==
    {requiredEnvVars} \cup {requiredEnvVars \ {v} : v \in requiredEnvVars}

\* The Express process runs (server.close() may have been called).
Alive == proc \in {"listening", "closing_0", "closing_1"}

\* A new connection reaches handler h. The Express handlers are reached
\* through `server`, which accepts connections from app.listen() until
\* server.close(); the Next.js handlers are invoked by their framework,
\* with no check of the environment before them.
Accepts(h) == h = "server" => proc = "listening"

\* The names the webhook handler h reads from process.env before its
\* switch: the signing secret, and in part_001 the two createClient
\* arguments. constructEvent and createClient throw on an unset value.
WebhookReads(h) ==
    IF h = "part_001"
    THEN {"STRIPE_WEBHOOK_SECRET", "NEXT_PUBLIC_SUPABASE_URL",
          "SUPABASE_SERVICE_ROLE_KEY"}
    ELSE {"STRIPE_WEBHOOK_SECRET"}

WebhookConfigured(h) == WebhookReads(h) \subseteq env

\* The provider authenticates a call by the secret key, and creates a
\* session only for redirect URLs built on a set base URL.
RetrieveUsable == "STRIPE_SECRET_KEY" \in env
SessionCreateUsable == {"STRIPE_SECRET_KEY", "NEXT_PUBLIC_APP_URL"} \subseteq env

LifeVars == <<env, proc, probe>>

\* A row of the table.  current_period_end is the stored instant, as epoch
\* milliseconds (toISOString renders a valid Date one-to-one).
Row(user, ssid, subid, cus, price, st, cpe, cape) ==
    [user_id |-> user, stripe_subscription_id |-> ssid,
     subscription_id |-> subid, stripe_customer_id |-> cus,
     price_id |-> price, status |-> st, current_period_end |-> cpe,
     cancel_at_period_end |-> cape]

\* ------------------------------------------------- signature checking
\* route.ts / part_001: `if (!signature) return 400` before anything else.
MissingSignatureRejected(h, sig) ==
    h \in {"route", "part_001"} /\ sig = "missing"

\* stripe.webhooks.constructEvent(body, sig, secret) returns the event only
\* for a header that verifies; it throws for an absent or a failing one.
ConstructEventOk(sig) == sig = "valid"

SignatureAccepted_HeaderOnly(h, sig) == sig # "missing"

SignatureAccepted(h, sig) ==
    ~MissingSignatureRejected(h, sig) /\ ConstructEventOk(sig)

\* ------------------------------------------------------ event dispatch
\* The branch of switch (event.type) that persists something.
Dispatch_CreatedAsUpdated(h, type) ==
    IF h = "server"
    THEN CASE type = "checkout.session.completed"    -> "insert"
           [] type = "customer.subscription.updated" -> "update"
           [] type = "customer.subscription.created" -> "update"
           [] type = "customer.subscription.deleted" -> "cancel"
           [] OTHER                                  -> "ignore"
    ELSE IF h = "part_001" /\ type = "checkout.session.completed"
         THEN "insert" ELSE "ignore"

Dispatch(h, type) ==
    CASE h = "server" ->
           ( CASE type = "checkout.session.completed"    -> "insert"
               [] type = "customer.subscription.updated" -> "update"
               [] type = "customer.subscription.deleted" -> "cancel"
               [] OTHER                                  -> "ignore" )
      [] h = "part_001" ->
           \* created / updated / deleted are logged only
           ( IF type = "checkout.session.completed" THEN "insert" ELSE "ignore" )
      [] OTHER ->
           \* route.ts: every case only logs
           "ignore"

\* ------------------------------------------------------- event mapper
\* new Date(seconds * 1000): the instant in epoch milliseconds.
ServerPeriodEnd(sec) == sec * 1000

\* new Date(subscription.current_period_end): the provider's epoch seconds
\* are taken as milliseconds.
Part001PeriodEnd(sec) == sec

\* subscription.items.data[0].price.id
FirstPrice(sub) == sub.items[1]

\* Building the row throws when data[0] is undefined (TypeError) or when
\* the Date is invalid (RangeError from toISOString).
DataThrows(sub) == Len(sub.items) = 0 \/ sub.current_period_end = NaN

\* server.js: subscriptionData
ServerSubscriptionData(session, sub) ==
    Row(session.client_reference_id, session.subscription, Null,
        session.customer, FirstPrice(sub), sub.status,
        ServerPeriodEnd(sub.current_period_end), sub.cancel_at_period_end)

\* part_001: the object given to insert(); it names the key column
\* subscription_id and sets neither stripe_subscription_id nor
\* stripe_customer_id.
Part001SubscriptionData(session, sub) ==
    Row(session.client_reference_id, Null, sub.id, Null,
        FirstPrice(sub), sub.status,
        Part001PeriodEnd(sub.current_period_end), sub.cancel_at_period_end)

SubscriptionData(h, session, sub) ==
    IF h = "server" THEN ServerSubscriptionData(session, sub)
                    ELSE Part001SubscriptionData(session, sub)

\* The update payload of customer.subscription.updated.
UpdatedPatch(obj) ==
    [status |-> obj.status,
     current_period_end |-> ServerPeriodEnd(obj.current_period_end),
     cancel_at_period_end |-> obj.cancel_at_period_end]

\* new Date(undefined * 1000).toISOString() throws RangeError.
UpdatedPatchThrows(obj) == obj.current_period_end = NaN

\* The update payload of customer.subscription.deleted.
DeletedPatch == [status |-> "canceled"]

\* ------------------------------------------------------------ storage
Patched(row, patch) ==
    [f \in DOMAIN row |-> IF f \in DOMAIN patch THEN patch[f] ELSE row[f]]

Matching(t, id) == { i \in DOMAIN t : t[i].stripe_subscription_id = id }

\* supabase.from('subscriptions').update(patch).eq('stripe_subscription_id', id)
UpdateRows_Upsert(t, id, patch) ==
    IF Matching(t, id) = {}
    THEN Append(t, Patched(Row(Null, id, Null, Null, Null, Null, NaN, FALSE), patch))
    ELSE [i \in DOMAIN t |-> IF i \in Matching(t, id) THEN Patched(t[i], patch) ELSE t[i]]

UpdateRows(t, id, patch) ==
    [i \in DOMAIN t |-> IF i \in Matching(t, id) THEN Patched(t[i], patch) ELSE t[i]]

\* customer.subscription.deleted: .update({ status: 'canceled' }).eq(...)
CancelRows_Delete(t, id) ==
    SelectSeq(t, LAMBDA row : row.stripe_subscription_id # id)

CancelRows(t, id) == UpdateRows(t, id, DeletedPatch)

\* The storage effect of the update the handler issued for event ev.
StorageUpdate(t, ev) ==
    IF ev.type = "customer.subscription.deleted"
    THEN CancelRows(t, ev.object.id)
    ELSE UpdateRows(t, ev.object.id, UpdatedPatch(ev.object))

\* supabase.from('subscriptions').insert(row)
InsertRow(t, row) == Append(t, row)

\* The uniqueness constraint the persisted schema carries on
\* stripe_subscription_id (NULLs never collide).
UniqueViolation_Unconstrained(t, row) == FALSE

UniqueViolation(t, row) ==
    /\ row.stripe_subscription_id # Null
    /\ Matching(t, row.stripe_subscription_id) # {}

\* ------------------------------------------------------ HTTP response
\* res.json({received: true}) is 200; the catch block answers 400.
StatusFor_Always200(failed) == 200

StatusFor(failed) == IF failed THEN 400 ELSE 200

\* -------------------------------------------------------------- Init
\* The server of a fully configured process is listening, its Supabase
\* check has passed, and no request has arrived.
Init ==
    /\ table = <<>>
    /\ pc = [r \in Slots |-> "idle"]
    /\ req = [r \in Slots |-> NoReq]
    /\ fetched = [r \in Slots |-> NoSub]
    /\ resp = [r \in Slots |-> 0]
    /\ calls = [r \in Slots |-> {}]
    /\ dbError = [r \in Slots |-> "none"]
    /\ affected = [r \in Slots |-> 0]
    /\ env = requiredEnvVars
    /\ proc = "listening"
    /\ probe = "ok"

\* The handler of slot r sends `status` and returns.
Respond(r, status) ==
    /\ pc' = [pc EXCEPT ![r] = "done"]
    /\ resp' = [resp EXCEPT ![r] = status]

\* The handler of slot r suspends at an await after issuing `call`.
Await(r, at, call) ==
    /\ pc' = [pc EXCEPT ![r] = at]
    /\ calls' = [calls EXCEPT ![r] = @ \cup {call}]
    /\ UNCHANGED resp

\* ------------------------------------------------- POST /api/webhook
\* The handler from the request's arrival to its first await on the
\* provider or the storage: signature check, constructEvent, switch.
WebhookReceive(r) ==
    /\ pc[r] = "idle"
    /\ \E h \in WebhookHandlers, sig \in Sigs, ev \in Events :
         /\ Accepts(h)
         /\ sig # "valid" => ev \in UnverifiedBodies
         /\ req' = [req EXCEPT ![r] =
                      [path |-> "/api/webhook", handler |-> h, sig |-> sig,
                       event |-> ev, priceId |-> Null, userId |-> Null]]
         /\ IF ~SignatureAccepted(h, sig) \/ ~WebhookConfigured(h)
            THEN Respond(r, StatusFor(TRUE)) /\ UNCHANGED calls
            ELSE CASE Dispatch(h, ev.type) = "insert" ->
                        Await(r, "retrieve", "subscriptions.retrieve")
                   [] Dispatch(h, ev.type) = "update" ->
                        IF UpdatedPatchThrows(ev.object)
                        THEN Respond(r, StatusFor(TRUE)) /\ UNCHANGED calls
                        ELSE Await(r, "update", "update")
                   [] Dispatch(h, ev.type) = "cancel" ->
                        Await(r, "update", "update")
                   [] OTHER ->
                        Respond(r, StatusFor(FALSE)) /\ UNCHANGED calls
    /\ UNCHANGED <<table, fetched, dbError, affected, LifeVars>>

\* await stripe.subscriptions.retrieve(session.subscription) settles: it
\* rejects (no id, unknown id, provider unreachable) or it resolves; the
\* handler then builds the row and issues the insert.
RetrieveDone(r) ==
    /\ pc[r] = "retrieve"
    /\ LET session == req[r].event.object
           found   == IF session.subscription \in SubIds
                      THEN ProviderSubs(session.subscription) ELSE {}
       IN  \/ /\ Respond(r, StatusFor(TRUE))
              /\ UNCHANGED <<fetched, calls>>
           \/ \E sub \in found :
                /\ RetrieveUsable
                /\ fetched' = [fetched EXCEPT ![r] = sub]
                /\ IF DataThrows(sub)
                   THEN Respond(r, StatusFor(TRUE)) /\ UNCHANGED calls
                   ELSE Await(r, "insert", "insert")
    /\ UNCHANGED <<table, req, dbError, affected, LifeVars>>

\* await supabase...insert(row) settles: the storage rejects a duplicate
\* key, fails for a reason of its own, or appends the row.
InsertDone(r) ==
    /\ pc[r] = "insert"
    /\ LET row == SubscriptionData(req[r].handler, req[r].event.object, fetched[r])
       IN  \/ /\ UniqueViolation(table, row)
              /\ dbError' = [dbError EXCEPT ![r] = "duplicate"]
              /\ Respond(r, StatusFor(TRUE))
              /\ UNCHANGED <<table, affected>>
           \/ /\ ~UniqueViolation(table, row)
              /\ dbError' = [dbError EXCEPT ![r] = "storage"]
              /\ Respond(r, StatusFor(TRUE))
              /\ UNCHANGED <<table, affected>>
           \/ /\ ~UniqueViolation(table, row)
              /\ Len(table) < MaxRows
              /\ table' = InsertRow(table, row)
              /\ affected' = [affected EXCEPT ![r] = 1]
              /\ Respond(r, StatusFor(FALSE))
              /\ UNCHANGED dbError
    /\ UNCHANGED <<req, fetched, calls, LifeVars>>

\* await supabase...update(patch).eq('stripe_subscription_id', id) settles:
\* the storage fails, or it patches the matching rows (possibly none).
UpdateDone(r) ==
    /\ pc[r] = "update"
    /\ LET ev == req[r].event
       IN  \/ /\ dbError' = [dbError EXCEPT ![r] = "storage"]
              /\ Respond(r, StatusFor(TRUE))
              /\ UNCHANGED <<table, affected>>
           \/ /\ table' = StorageUpdate(table, ev)
              /\ Len(table') <= MaxRows
              /\ affected' = [affected EXCEPT ![r] = Cardinality(Matching(table, ev.object.id))]
              /\ Respond(r, StatusFor(FALSE))
              /\ UNCHANGED dbError
    /\ UNCHANGED <<req, fetched, calls, LifeVars>>

\* ------------------------------------------- POST /api/create-checkout
\* !priceId / !userId
Falsy(v) == v \in {Undefined, Null, ""}

FieldsMissing_PriceOnly(priceId, userId) == Falsy(priceId)

FieldsMissing(priceId, userId) == Falsy(priceId) \/ Falsy(userId)

\* The handler up to its await on stripe.checkout.sessions.create.
CheckoutReceive(r) ==
    /\ pc[r] = "idle"
    /\ \E h \in CheckoutHandlers, priceId \in {Undefined, "price_A"},
          userId \in {"", "user_1"} :
         /\ Accepts(h)
         /\ req' = [req EXCEPT ![r] =
                      [path |-> "/api/create-checkout", handler |-> h,
                       sig |-> Null, event |-> NoReq.event,
                       priceId |-> priceId, userId |-> userId]]
         /\ IF FieldsMissing(priceId, userId)
            THEN Respond(r, 400) /\ UNCHANGED calls
            ELSE Await(r, "create", "checkout.sessions.create")
    /\ UNCHANGED <<table, fetched, dbError, affected, LifeVars>>

\* await stripe.checkout.sessions.create(...) settles: the session is
\* returned (200) or the provider fails and the catch block answers 500.
SessionCreateDone(r) ==
    /\ pc[r] = "create"
    /\ \/ SessionCreateUsable /\ Respond(r, 200)
       \/ Respond(r, 500)
    /\ UNCHANGED <<table, req, fetched, calls, dbError, affected, LifeVars>>

\* The response has been delivered; the slot serves the next request.
Finish(r) ==
    /\ pc[r] = "done"
    /\ pc' = [pc EXCEPT ![r] = "idle"]
    /\ req' = [req EXCEPT ![r] = NoReq]
    /\ fetched' = [fetched EXCEPT ![r] = NoSub]
    /\ resp' = [resp EXCEPT ![r] = 0]
    /\ calls' = [calls EXCEPT ![r] = {}]
    /\ dbError' = [dbError EXCEPT ![r] = "none"]
    /\ affected' = [affected EXCEPT ![r] = 0]
    /\ UNCHANGED <<table, LifeVars>>

Next ==
    \E r \in Slots :
        \/ WebhookReceive(r)
        \/ RetrieveDone(r)
        \/ InsertDone(r)
        \/ UpdateDone(r)
        \/ CheckoutReceive(r)
        \/ SessionCreateDone(r)
        \/ Finish(r)

Spec == Init /\ [][Next]_vars

\* ------------------------------------------------ process lifecycle
\* src/server.js from its first line to its last, run synchronously when
\* the process starts: the loop over requiredEnvVars exits with code 1 on
\* the first unset name; otherwise the clients are created,
\* checkSupabaseConnection() is started, app.listen() is called and the
\* signal and error handlers are installed.
Startup ==
    /\ proc = "init"
    /\ IF \E v \in requiredEnvVars : v \notin env
       THEN proc' = "exit_1" /\ UNCHANGED probe
       ELSE proc' = "listening" /\ probe' = "pending"
    /\ UNCHANGED <<table, pc, req, fetched, resp, calls, dbError, affected, env>>

\* Both queries of checkSupabaseConnection() succeed.
ProbeOk ==
    /\ Alive
    /\ probe = "pending"
    /\ probe' = "ok"
    /\ UNCHANGED <<table, pc, req, fetched, resp, calls, dbError, affected,
                   env, proc>>

\* The value of f once the process is gone: the requests the Express
\* process was serving are lost with it.
Lost(f, blank) ==
    [r \in Slots |-> IF req[r].handler = "server" THEN blank ELSE f[r]]

\* A query of checkSupabaseConnection() fails: the .catch calls
\* process.exit(1) at once, whatever the server is doing.
ProbeFailed ==
    /\ Alive
    /\ probe = "pending"
    /\ probe' = "failed"
    /\ proc' = "exit_1"
    /\ pc' = Lost(pc, "idle")
    /\ req' = Lost(req, NoReq)
    /\ fetched' = Lost(fetched, NoSub)
    /\ resp' = Lost(resp, 0)
    /\ calls' = Lost(calls, {})
    /\ dbError' = Lost(dbError, "none")
    /\ affected' = Lost(affected, 0)
    /\ UNCHANGED <<table, env>>

\* server.close(cb) with cb = () => process.exit(code): the server stops
\* accepting connections; cb runs once every connection has ended. A
\* second close() adds a later callback, which the first one's exit
\* leaves unrun.
Close(p, code) ==
    IF p = "listening"
    THEN (IF code = 0 THEN "closing_0" ELSE "closing_1")
    ELSE p

\* SIGTERM or SIGINT is delivered: server.close(() => process.exit(0)).
Signal ==
    /\ Alive
    /\ proc' = Close(proc, 0)
    /\ UNCHANGED <<table, pc, req, fetched, resp, calls, dbError, affected,
                   env, probe>>

\* An uncaughtException or unhandledRejection is raised:
\* server.close(() => process.exit(1)).
Uncaught ==
    /\ Alive
    /\ proc' = Close(proc, 1)
    /\ UNCHANGED <<table, pc, req, fetched, resp, calls, dbError, affected,
                   env, probe>>

\* Every connection of the closed server has ended: the close callback
\* calls process.exit.
CloseDone ==
    /\ proc \in {"closing_0", "closing_1"}
    /\ \A r \in Slots : req[r].handler # "server"
    /\ proc' = IF proc = "closing_0" THEN "exit_0" ELSE "exit_1"
    /\ UNCHANGED <<table, pc, req, fetched, resp, calls, dbError, affected,
                   env, probe>>

LifeInit ==
    /\ table = <<>>
    /\ pc = [r \in Slots |-> "idle"]
    /\ req = [r \in Slots |-> NoReq]
    /\ fetched = [r \in Slots |-> NoSub]
    /\ resp = [r \in Slots |-> 0]
    /\ calls = [r \in Slots |-> {}]
    /\ dbError = [r \in Slots |-> "none"]
    /\ affected = [r \in Slots |-> 0]
    /\ env \in Environments
    /\ proc = "init"
    /\ probe = "idle"

\* The deliveries followed through the life of the process: verified
\* ones, of one checkout and of one cancellation.
LifeWebhookReceive(r) ==
    /\ WebhookReceive(r)
    /\ req'[r].sig = "valid"
    /\ req'[r].event.type \in {"checkout.session.completed",
                                "customer.subscription.deleted"}
    /\ req'[r].event.object.id \in {"cs_2", "sub_1"}

LifeNext ==
    \/ Startup
    \/ ProbeOk
    \/ ProbeFailed
    \/ Signal
    \/ Uncaught
    \/ CloseDone
    \/ \E r \in Slots :
        \/ LifeWebhookReceive(r)
        \/ RetrieveDone(r)
        \/ InsertDone(r)
        \/ UpdateDone(r)
        \/ CheckoutReceive(r)
        \/ SessionCreateDone(r)
        \/ Finish(r)

LifeSpec == LifeInit /\ [][LifeNext]_vars

\* ============================================================== claims
\* Vocabulary of the properties below.
IsWebhook(q)  == q.path = "/api/webhook"
Verified(q)   == IsWebhook(q) /\ q.sig = "valid"
TypeOf(q)     == q.event.type
Answered(r)   == pc[r] = "done"
\* The step in which the handler of slot r sends its response.
Answers(r)    == pc[r] # "done" /\ pc'[r] = "done"

HandledTypes ==
    {"checkout.session.completed", "customer.subscription.updated",
     "customer.subscription.deleted"}

\* C1: a webhook request whose stripe-signature header is missing or does
\* not verify is answered 400 at once, and no provider lookup, insert or
\* update is ever made for it.
C1_UnverifiedRejected ==
    \A r \in Slots :
        (IsWebhook(req[r]) /\ req[r].sig # "valid")
            => /\ Answered(r)
               /\ resp[r] = 400
               /\ calls[r] = {}
               /\ affected[r] = 0

C1_Witness ==
    \E r \in Slots :
        /\ req[r].handler = "server"
        /\ req[r].sig = "invalid"
        /\ TypeOf(req[r]) = "checkout.session.completed"
        /\ resp[r] = 400
        /\ table # <<>>

\* The statement of C2 for the handlers in H.
CheckoutStoresFetched(H) ==
    \A r \in Slots :
      ( /\ Answers(r)
        /\ Verified(req'[r])
        /\ req'[r].handler \in H
        /\ TypeOf(req'[r]) = "checkout.session.completed"
        /\ fetched'[r] # NoSub
        /\ resp'[r] = 200 )
      => LET session == req'[r].event.object
             m       == Matching(table', session.subscription)
         IN  /\ Cardinality(m) = 1
             /\ \A i \in m :
                  /\ table'[i].status = fetched'[r].status
                  /\ table'[i].price_id = fetched'[r].items[1]
                  /\ table'[i].current_period_end
                         = fetched'[r].current_period_end * 1000
                  /\ table'[i].user_id = session.client_reference_id

\* C2: when a verified checkout.session.completed event whose subscription
\* the provider resolved is answered 200, exactly one row carries that
\* stripe_subscription_id, and its status, price_id (first line item),
\* current_period_end (the provider's seconds as an instant) and user_id
\* are those of the fetched subscription and of the session.
C2_CheckoutStoresFetched == [][CheckoutStoresFetched(WebhookHandlers)]_vars

\* C2 restricted to src/server.js, which satisfies it.
C2_Server_CheckoutStoresFetched == [][CheckoutStoresFetched({"server"})]_vars

\* C3: a checkout.session.completed delivery whose insert is rejected as a
\* duplicate key (the event was already processed) is answered 200, and
\* one row exists for its subscription id.
C3_RedeliveryAcknowledged ==
    \A r \in Slots :
        ( /\ Answered(r)
          /\ Verified(req[r])
          /\ TypeOf(req[r]) = "checkout.session.completed"
          /\ dbError[r] = "duplicate" )
        => /\ resp[r] = 200
           /\ Cardinality(Matching(table, req[r].event.object.subscription)) = 1

\* The statement of C4 for the handlers in H.
UpdatedOverwrites(H) ==
    \A r \in Slots :
      ( /\ Answers(r)
        /\ Verified(req'[r])
        /\ req'[r].handler \in H
        /\ TypeOf(req'[r]) = "customer.subscription.updated"
        /\ resp'[r] = 200 )
      => LET obj == req'[r].event.object
         IN  /\ Len(table') = Len(table)
             /\ \A i \in DOMAIN table :
                  table'[i] =
                    IF i \in Matching(table, obj.id)
                    THEN [table[i] EXCEPT
                            !.status = obj.status,
                            !.current_period_end = obj.current_period_end * 1000,
                            !.cancel_at_period_end = obj.cancel_at_period_end]
                    ELSE table[i]

\* C4: when a verified customer.subscription.updated event is answered
\* 200, the row matching its subscription id has status,
\* current_period_end and cancel_at_period_end overwritten with the
\* event's values and every other field as before.
C4_UpdatedOverwrites == [][UpdatedOverwrites(WebhookHandlers)]_vars

\* C4 restricted to src/server.js, which satisfies it.
C4_Server_UpdatedOverwrites == [][UpdatedOverwrites({"server"})]_vars

\* The statement of C5 for the handlers in H.
DeletedCancels(H) ==
    \A r \in Slots :
      ( /\ Answers(r)
        /\ Verified(req'[r])
        /\ req'[r].handler \in H
        /\ TypeOf(req'[r]) = "customer.subscription.deleted"
        /\ resp'[r] = 200 )
      => /\ Len(table') = Len(table)
         /\ \A i \in DOMAIN table :
              table'[i] =
                IF i \in Matching(table, req'[r].event.object.id)
                THEN [table[i] EXCEPT !.status = "canceled"]
                ELSE table[i]

\* C5: when a verified customer.subscription.deleted event is answered
\* 200, the row matching its subscription id is kept, with status
\* 'canceled' and every other field as before.
C5_DeletedCancels == [][DeletedCancels(WebhookHandlers)]_vars

\* C5 restricted to src/server.js, which satisfies it.
C5_Server_DeletedCancels == [][DeletedCancels({"server"})]_vars

\* States showing the server.js cases of C2, C4 and C5 happening.
C2_Server_Witness ==
    \E r \in Slots :
        /\ Answered(r) /\ req[r].handler = "server" /\ resp[r] = 200
        /\ TypeOf(req[r]) = "checkout.session.completed"
        /\ Cardinality(Matching(table, req[r].event.object.subscription)) = 1

C4_Server_Witness ==
    \E r \in Slots :
        /\ Answered(r) /\ req[r].handler = "server" /\ resp[r] = 200
        /\ TypeOf(req[r]) = "customer.subscription.updated"
        /\ affected[r] = 1
        /\ Len(table) = 2

C5_Server_Witness ==
    \E r \in Slots :
        /\ Answered(r) /\ req[r].handler = "server" /\ resp[r] = 200
        /\ TypeOf(req[r]) = "customer.subscription.deleted"
        /\ affected[r] = 1
        /\ \E i \in DOMAIN table : table[i].status = "canceled"

\* C6: a verified, well-formed customer.subscription.updated or
\* customer.subscription.deleted event that names a subscription id with
\* no row, and whose storage call does not itself fail, changes no row,
\* leaves the table as it is and is answered 200.
C6_UpdateOfMissingRowIsNoOp ==
    [][ \A r \in Slots :
          ( /\ Answers(r)
            /\ Verified(req'[r])
            /\ TypeOf(req'[r]) \in {"customer.subscription.updated",
                                    "customer.subscription.deleted"}
            /\ ~UpdatedPatchThrows(req'[r].event.object)
            /\ Matching(table, req'[r].event.object.id) = {}
            /\ dbError'[r] = "none" )
          => /\ table' = table
             /\ affected'[r] = 0
             /\ resp'[r] = 200
      ]_vars

C6_Witness ==
    \E r \in Slots :
        /\ Answered(r)
        /\ req[r].handler = "server"
        /\ TypeOf(req[r]) = "customer.subscription.deleted"
        /\ calls[r] = {"update"}
        /\ dbError[r] = "none"
        /\ affected[r] = 0
        /\ resp[r] = 200
        /\ Matching(table, req[r].event.object.id) = {}
        /\ table # <<>>

\* C7: a verified event of any other type than the three handled ones
\* (customer.subscription.created included) is answered 200 at once and
\* no provider or storage call is made for it.
C7_OtherTypesIgnored ==
    \A r \in Slots :
        (Verified(req[r]) /\ TypeOf(req[r]) \notin HandledTypes)
            => /\ Answered(r)
               /\ resp[r] = 200
               /\ calls[r] = {}
               /\ affected[r] = 0

C7_Witness ==
    \E r \in Slots :
        /\ Answered(r)
        /\ req[r].handler = "server"
        /\ TypeOf(req[r]) = "customer.subscription.created"
        /\ resp[r] = 200
        /\ Matching(table, req[r].event.object.id) # {}

\* The ways processing of a verified event fails in the step that answers
\* slot r: the provider lookup rejects, the payload or the fetched
\* subscription lacks a field the row is built from, or the storage call
\* returns an error.
LookupFails(r)   == pc[r] = "retrieve" /\ fetched'[r] = NoSub
MalformedData(r) ==
    \/ pc[r] = "retrieve" /\ fetched'[r] # NoSub /\ DataThrows(fetched'[r])
    \/ /\ pc[r] = "idle"
       /\ Dispatch(req'[r].handler, TypeOf(req'[r])) = "update"
       /\ UpdatedPatchThrows(req'[r].event.object)
StorageFails(r)  == dbError'[r] # "none"

\* C8: when processing of a verified event fails, the response is 400, the
\* failing step leaves the table as it is and the request has written no
\* row.
C8_FailureAnswers400AndWritesNothing ==
    [][ \A r \in Slots :
          ( /\ Answers(r)
            /\ Verified(req'[r])
            /\ (LookupFails(r) \/ MalformedData(r) \/ StorageFails(r)) )
          => /\ resp'[r] = 400
             /\ table' = table
             /\ affected'[r] = 0
      ]_vars

\* A failure after the provider lookup and before any storage call: the
\* fetched subscription has no line item to take the price from.
C8_Witness ==
    \E r \in Slots :
        /\ Answered(r)
        /\ req[r].handler = "server"
        /\ fetched[r] # NoSub
        /\ DataThrows(fetched[r])
        /\ calls[r] = {"subscriptions.retrieve"}
        /\ resp[r] = 400
        /\ Matching(table, req[r].event.object.subscription) = {}

C10_RowsOnlyAddedByCheckoutCompleted ==
    [][ /\ Len(table') >= Len(table)
        /\ \A i \in DOMAIN table :
             /\ table'[i].stripe_subscription_id = table[i].stripe_subscription_id
             /\ table'[i].subscription_id = table[i].subscription_id
             /\ table'[i].user_id = table[i].user_id
        /\ Len(table') > Len(table)
             => \E r \in Slots :
                  /\ pc[r] = "insert" /\ pc'[r] = "done"
                  /\ Verified(req[r])
                  /\ TypeOf(req[r]) = "checkout.session.completed"
                  /\ Len(table') = Len(table) + 1
      ]_vars

\* A canceled subscription whose row is still there, beside another row,
\* while a create-checkout request has been answered.
C10_Witness ==
    /\ Len(table) = 2
    /\ \E i \in DOMAIN table : table[i].status = "canceled"
    /\ \E r \in Slots :
         /\ Answered(r)
         /\ req[r].path = "/api/create-checkout"
         /\ resp[r] = 200

\* C11: a create-checkout request whose priceId or userId is absent or
\* empty is answered 400 at once, and checkout.sessions.create is never
\* called for it.
C11_MissingFieldsRejected ==
    \A r \in Slots :
        ( /\ req[r].path = "/api/create-checkout"
          /\ (Falsy(req[r].priceId) \/ Falsy(req[r].userId)) )
        => /\ Answered(r)
           /\ resp[r] = 400
           /\ calls[r] = {}

C11_Witness ==
    \E r \in Slots :
        /\ req[r].path = "/api/create-checkout"
        /\ req[r].priceId = "price_A"
        /\ req[r].userId = ""
        /\ resp[r] = 400
        /\ \E q \in Slots :
             /\ req[q].path = "/api/create-checkout"
             /\ "checkout.sessions.create" \in calls[q]

\* The statement of C14 for the handlers in H: whatever current_period_end
\* an answering step stores, on the insert path or on the update path, is
\* the provider's seconds multiplied by 1000.
PeriodEndInMillis(H) ==
    \A r \in Slots :
      ( /\ Answers(r)
        /\ Verified(req'[r])
        /\ req'[r].handler \in H )
      => /\ ( /\ TypeOf(req'[r]) = "checkout.session.completed"
              /\ Len(table') = Len(table) + 1 )
            => table'[Len(table')].current_period_end
                   = fetched'[r].current_period_end * 1000
         /\ ( /\ TypeOf(req'[r]) = "customer.subscription.updated"
              /\ table' # table )
            => \A i \in Matching(table, req'[r].event.object.id) :
                   table'[i].current_period_end
                       = req'[r].event.object.current_period_end * 1000

\* C14: the provider's period boundary is epoch seconds and is multiplied
\* by 1000 before it is stored, on the insert path
\* (checkout.session.completed) and on the update path
\* (customer.subscription.updated) alike, so one provider value gives one
\* stored current_period_end on both paths.
C14_PeriodEndInMillis == [][PeriodEndInMillis(WebhookHandlers)]_vars

\* C14 restricted to src/server.js, which satisfies it.
C14_Server_PeriodEndInMillis == [][PeriodEndInMillis({"server"})]_vars

\* States showing both server.js paths of C14 having stored a value: a row
\* inserted for sub_2 and a row for sub_1 updated to the event's boundary.
C14_Server_Witness ==
    /\ \E i \in DOMAIN table :
         /\ table[i].stripe_subscription_id = "sub_1"
         /\ table[i].status = "past_due"
         /\ table[i].current_period_end = 3 * 1000
    /\ \E i \in DOMAIN table :
         /\ table[i].stripe_subscription_id = "sub_2"
         /\ table[i].current_period_end = 1 * 1000

\* The statement of C12 for the handlers in H: with a required name unset
\* the Express process is never listening, closing or exited with
\* success, and no handler of H has a request.
UnconfiguredServesNothing(H) ==
    (env # requiredEnvVars)
    => /\ proc \in {"init", "exit_1"}
       /\ \A r \in Slots : req[r].handler \notin H

\* C12: if any of the five required configuration values is absent at
\* startup, the process ends with a failure exit without ever listening,
\* and no request is served by a partially configured process.
C12_UnconfiguredServesNothing ==
    UnconfiguredServesNothing(WebhookHandlers \cup CheckoutHandlers)

\* C12 restricted to src/server.js, which satisfies it.
C12_Server_UnconfiguredServesNothing == UnconfiguredServesNothing({"server"})

\* The server.js case of C12 happening: a name is unset and the start-up
\* loop has ended the process with code 1.
C12_Server_Witness ==
    /\ "NEXT_PUBLIC_APP_URL" \notin env
    /\ proc = "exit_1"
    /\ probe = "idle"

\* Slot r holds a request of the Express server that has no response yet.
InFlight(r) == req[r].handler = "server" /\ pc[r] # "done"

\* The statement of C13 for the steps taken once a termination signal has
\* closed the server, in the states where `when` holds: no connection is
\* opened, no request in flight is lost, and the process exits with no
\* request left in it.
GracefulAfterSignal(when) ==
    (proc = "closing_0" /\ when)
    => /\ \A r \in Slots :
            pc[r] = "idle" => req'[r].handler # "server"
       /\ \A r \in Slots :
            InFlight(r) => req'[r] = req[r]
       /\ proc' \in {"exit_0", "exit_1"}
            => \A r \in Slots : req[r].handler # "server"

\* C13: after SIGTERM or SIGINT the server accepts no new connection,
\* every request in flight when the signal arrived still receives its
\* response, and the process exits only after those requests have
\* finished.
C13_GracefulAfterSignal == [][GracefulAfterSignal(TRUE)]_vars

\* C13 once checkSupabaseConnection() has succeeded, which src/server.js
\* satisfies.
C13_Probed_GracefulAfterSignal == [][GracefulAfterSignal(probe = "ok")]_vars

\* The probed case of C13 happening: the server is closed by a signal
\* while a checkout delivery awaits its insert.
C13_Probed_Witness ==
    /\ proc = "closing_0"
    /\ probe = "ok"
    /\ \E r \in Slots : InFlight(r) /\ pc[r] = "insert"

=============================================================================
